---- MODULE Spec2Model ----
(***************************************************************************)
(* Model of GAE_model/mask.py: the three masking functions                 *)
(* (mask_node_features, mask_path, mask_edge) and their nn.Module adapters *)
(* (MaskNode, MaskPath, MaskEdge).                                         *)
(*                                                                         *)
(* An edge index (a 2 x E tensor) is a sequence of columns <<u, v>>;       *)
(* position i of the tensor is element i + 1 of the sequence.              *)
(* A probability is kept in half units: the value P stands for P / 2, so   *)
(* PVals = -1 .. 3 covers -0.5, 0.0, 0.5, 1.0 and 1.5 (all exact floats).  *)
(***************************************************************************)
EXTENDS Integers, Sequences, FiniteSets

\* ---------------------------------------------------------------- bounds
MaxNodes == 3
MaxEdges == 3
MaxWalks == 2
MaxLen == 2
MaxDim == 2

PVals == -1 .. 3
NoneVal == -1
Nodes == 0 .. (MaxNodes - 1)
Pairs == {e \in Nodes \X Nodes : e[1] # e[2]}
FeatVals == {0, 1}

\* ------------------------------------------------------ tensor primitives
Range(s) == {s[i] : i \in DOMAIN s}

Injective(s) == \A i, j \in DOMAIN s : s[i] = s[j] => i = j

\* edge lists of a simple directed graph, in any column order
EdgeLists == UNION {{s \in [1 .. n -> Pairs] : Injective(s)} : n \in 0 .. MaxEdges}

Row(ei) == [i \in DOMAIN ei |-> ei[i][1]]
Col(ei) == [i \in DOMAIN ei |-> ei[i][2]]

RECURSIVE SelectBy(_, _)
\* t[:, m] : the columns of t whose mask entry is true, in order
SelectBy(t, m) ==
    IF Len(t) = 0 THEN << >>
    ELSE IF m[1] THEN << t[1] >> \o SelectBy(Tail(t), Tail(m))
         ELSE SelectBy(Tail(t), Tail(m))

Not(m) == [i \in DOMAIN m |-> ~ m[i]]

NewOnes(n) == [i \in 1 .. n |-> TRUE]

RECURSIVE Repeat(_, _)
\* Tensor.repeat(n) of a one-dimensional tensor
Repeat(s, n) == IF n = 0 THEN << >> ELSE s \o Repeat(s, n - 1)

SetMax(S) == CHOOSE m \in S : \A k \in S : k <= m

\* torch_geometric maybe_num_nodes: the given count, else 1 + largest node id
maybe_num_nodes(ei, n) ==
    IF n # NoneVal THEN n
    ELSE IF Len(ei) = 0 THEN 0
    ELSE 1 + SetMax(Range(Row(ei)) \cup Range(Col(ei)))

SortKey(e, n) == e[1] * n + e[2]

RECURSIVE InsertSorted(_, _, _)
InsertSorted(e, s, n) ==
    IF Len(s) = 0 THEN << e >>
    ELSE IF SortKey(e, n) < SortKey(s[1], n) THEN << e >> \o s
         ELSE << s[1] >> \o InsertSorted(e, Tail(s), n)

RECURSIVE sort_edge_index(_, _)
\* torch_geometric sort_edge_index: columns ordered by row * num_nodes + col
sort_edge_index(ei, n) ==
    IF Len(ei) = 0 THEN << >>
    ELSE InsertSorted(ei[Len(ei)], sort_edge_index(SubSeq(ei, 1, Len(ei) - 1), n), n)

IsSortedByRow(ei) == \A i, j \in DOMAIN ei : i < j => ei[i][1] <= ei[j][1]

\* torch_geometric degree: entry i counts the occurrences of i in row
degree(row, n) == [i \in 0 .. (n - 1) |-> Cardinality({j \in DOMAIN row : row[j] = i})]

RECURSIVE CumSum(_, _)
CumSum(deg, i) == IF i = 0 THEN 0 ELSE CumSum(deg, i - 1) + deg[i - 1]

\* rowptr = zeros(num_nodes + 1) ; cumsum(deg) written to rowptr[1:]
RowPtr(row, n) == [i \in 0 .. n |-> CumSum(degree(row, n), i)]

\* col[rowptr[current_node] : rowptr[current_node + 1]]
Neighbors(ei, n, node) ==
    SubSeq(Col(ei), RowPtr(Row(ei), n)[node] + 1, RowPtr(Row(ei), n)[node + 1])

\* Python round() of h / 2: ties go to the even integer
Round(h) ==
    IF h % 2 = 0 THEN h \div 2
    ELSE IF (h \div 2) % 2 = 0 THEN h \div 2 ELSE (h \div 2) + 1

\* e_id[e_id != -1]
FilterMarkers(ids) == SelectSeq(ids, LAMBDA v : v # -1)

\* edge_mask[e_id] = False
MaskOut(mask, ids) == [i \in DOMAIN mask |-> mask[i] /\ (i - 1) \notin Range(ids)]

\* ------------------------------------------------------------------ state
VARIABLES
    pc,             \* position of the running call
    err,            \* the exception that ended the call, or "none"
    fn,             \* the function called
    via,            \* "function": called directly; "module": through forward()
    undirected,     \* self.undirected of the adapter
    edge_index,     \* the caller's edge index tensor (argument)
    p,
    q,
    walks_per_node,
    walk_length,
    num_nodes_arg,  \* num_nodes argument (NoneVal = None)
    start_arg,      \* start argument
    is_sorted,
    training,
    ei,             \* local edge_index (rebound by the sort)
    num_nodes,      \* local num_nodes
    edge_mask,
    start,          \* local start after selection and repeat
    walk,           \* iteration of the outer loop over range(walks_per_node)
    si,             \* index into start of the walk in progress
    step,           \* steps taken by the walk in progress
    current_node,
    e_id,
    mask,           \* local mask of mask_edge and mask_node_features
    ret,            \* the pair returned by mask_path or mask_edge
    x,              \* the caller's feature matrix (argument)
    masked_x,       \* the matrix returned by mask_node_features
    out             \* the value returned by forward()

\* n_id (lines 69, 79, 83) is written but never read, and is not kept.

args == << fn, via, undirected, edge_index, p, q, walks_per_node, walk_length,
           num_nodes_arg, start_arg, is_sorted, training >>
locals == << ei, num_nodes, edge_mask, start, walk, si, step, current_node,
             e_id, mask >>
feats == << x, masked_x >>
vars == << pc, err, args, locals, ret, feats, out >>

NoRet == [first |-> << >>, second |-> << >>, kind |-> "none"]

\* the locals of a call that has not executed past its argument checks
FreshLocals ==
    /\ ei = edge_index
    /\ num_nodes = num_nodes_arg
    /\ edge_mask = << >>
    /\ start = << >>
    /\ walk = 0 /\ si = 0 /\ step = 0
    /\ current_node = NoneVal
    /\ e_id = << >>
    /\ mask = << >>

\* nothing computed, nothing returned
FreshCall ==
    /\ pc = "entry"
    /\ err = "none"
    /\ FreshLocals
    /\ ret = NoRet
    /\ masked_x = << >>
    /\ out = NoRet

\* outcomes of torch.bernoulli on n entries of probability prob
Bernoulli(n, prob) ==
    {m \in [1 .. n -> BOOLEAN] : /\ prob >= 2 => \A i \in 1 .. n : m[i]
                                 /\ prob <= 0 => \A i \in 1 .. n : ~ m[i]}

\* ------------------------------------------------------------- mask_path
\* PathProbInvalid without the upper test
PathProbNegative(prob) == prob < 0

\* if p < 0. or p > 1.   (line 42)
PathProbInvalid(prob) == prob < 0 \/ prob > 2

\* Bypass without the training test
BypassIgnoresTraining(tr, prob) == prob = 0

\* if not training or p == 0.0   (line 50)
Bypass(tr, prob) == ~ tr \/ prob = 0

\* sequences of k distinct nodes: randperm(num_nodes)[:k]
RandPermPrefix(n, k) == {s \in [1 .. k -> 0 .. (n - 1)] : Injective(s)}

\* outcomes of torch.rand(n) <= prob, rand being uniform on [0, 1)
RandLeq(n, prob) ==
    {m \in [1 .. n -> BOOLEAN] : /\ prob >= 2 => \A i \in 1 .. n : m[i]
                                 /\ prob < 0 => \A i \in 1 .. n : ~ m[i]}

\* the start tensor of lines 59-63
StartChoices(mode, t, n, prob, w) ==
    IF mode = "edge"
    THEN {Repeat(SelectBy(Row(t), m), w) : m \in RandLeq(Len(t), prob)}
    ELSE {Repeat(s, w) : s \in RandPermPrefix(n, Round(n * prob))}

\* a call of mask_path(edge_index, p, walks_per_node, walk_length, num_nodes,
\* start, is_sorted, training)
PathCall ==
    /\ fn = "mask_path"
    /\ edge_index \in EdgeLists
    /\ p \in PVals
    /\ q = 0
    /\ walks_per_node \in 0 .. MaxWalks
    /\ walk_length \in 0 .. MaxLen
    /\ num_nodes_arg \in {NoneVal, MaxNodes}
    /\ start_arg \in {"node", "edge", "other"}
    /\ is_sorted \in BOOLEAN
    /\ is_sorted => IsSortedByRow(edge_index)
    /\ training \in BOOLEAN
    /\ x = << >>
    /\ FreshCall

\* lines 42-46
PathValidate ==
    /\ pc = "entry"
    /\ fn = "mask_path"
    /\ IF PathProbInvalid(p) THEN pc' = "raised" /\ err' = "ValueError"
       ELSE IF start_arg \notin {"node", "edge"}
            THEN pc' = "raised" /\ err' = "AssertionError"
            ELSE pc' = "checked" /\ err' = err
    /\ UNCHANGED << args, locals, ret, feats, out >>

\* lines 47-51
PathBypass ==
    /\ pc = "checked"
    /\ fn = "mask_path"
    /\ edge_mask' = NewOnes(Len(ei))
    /\ IF Bypass(training, p)
       THEN /\ pc' = "returned"
            /\ ret' = [first |-> ei, second |-> edge_mask',
                       kind |-> "edge_index_and_mask"]
       ELSE /\ pc' = "sort"
            /\ ret' = ret
    /\ UNCHANGED << err, args, ei, num_nodes, start, walk, si, step,
                    current_node, e_id, mask, feats, out >>

\* lines 53-58
PathSort ==
    /\ pc = "sort"
    /\ num_nodes' = maybe_num_nodes(ei, num_nodes_arg)
    /\ ei' = IF is_sorted THEN ei ELSE sort_edge_index(ei, num_nodes')
    /\ pc' = "select"
    /\ UNCHANGED << err, args, edge_mask, start, walk, si, step, current_node,
                    e_id, mask, ret, feats, out >>

\* the walks of lines 71-72 in order: pass w of range(walks_per_node), entry
\* i of start; << w, 0 >> when the loops are exhausted
NextWalk(w, i, st, passes) ==
    IF i < Len(st) THEN << w, i + 1 >>
    ELSE IF w + 1 < passes /\ Len(st) > 0 THEN << w + 1, 1 >>
    ELSE << w, 0 >>

\* lines 59-73: the start tensor, and entry into the loops
PathSelectStart ==
    /\ pc = "select"
    /\ \E st \in StartChoices(start_arg, ei, num_nodes, p, walks_per_node) :
          /\ start' = st
          /\ IF walks_per_node > 0 /\ Len(st) > 0
             THEN /\ pc' = "walk"
                  /\ walk' = 0 /\ si' = 1 /\ step' = 0
                  /\ current_node' = st[1]
             ELSE /\ pc' = "mask"
                  /\ UNCHANGED << walk, si, step, current_node >>
    /\ e_id' = << >>
    /\ UNCHANGED << err, args, ei, num_nodes, edge_mask, mask, ret, feats, out >>

\* lines 74-81: one step of the walk in progress
PathWalkStep ==
    /\ pc = "walk"
    /\ step < walk_length
    /\ Len(Neighbors(ei, num_nodes, current_node)) > 0
    /\ \E c \in 1 .. Len(Neighbors(ei, num_nodes, current_node)) :
          /\ e_id' = Append(e_id, current_node)
          /\ current_node' = Neighbors(ei, num_nodes, current_node)[c]
    /\ step' = step + 1
    /\ UNCHANGED << pc, err, args, ei, num_nodes, edge_mask, start, walk, si,
                    mask, ret, feats, out >>

\* lines 76-77 and 82: the walk ends (break, or walk_length steps taken), the
\* marker is appended and the loops move on
PathWalkEnd ==
    /\ pc = "walk"
    /\ step >= walk_length \/ Len(Neighbors(ei, num_nodes, current_node)) = 0
    /\ e_id' = Append(e_id, -1)
    /\ LET nw == NextWalk(walk, si, start, walks_per_node) IN
          IF nw[2] = 0
          THEN /\ pc' = "mask"
               /\ UNCHANGED << walk, si, step, current_node >>
          ELSE /\ pc' = "walk"
               /\ walk' = nw[1] /\ si' = nw[2] /\ step' = 0
               /\ current_node' = start[nw[2]]
    /\ UNCHANGED << err, args, ei, num_nodes, edge_mask, start, mask, ret,
                    feats, out >>

\* torch.tensor([]) is a float32 tensor, and a float tensor used as an index
\* raises IndexError   (lines 84, 87)
FloatIndex(ids) == Len(ids) = 0

\* an index outside [-n, n) raises IndexError   (line 87)
IndexOutOfRange(ids, n) == \E i \in DOMAIN ids : ids[i] >= n \/ ids[i] < -n

\* lines 83-89
PathMask ==
    /\ pc = "mask"
    /\ IF FloatIndex(e_id) \/ IndexOutOfRange(FilterMarkers(e_id), Len(edge_mask))
       THEN /\ pc' = "raised"
            /\ err' = "IndexError"
            /\ UNCHANGED << edge_mask, ret >>
       ELSE /\ pc' = "returned"
            /\ err' = err
            /\ edge_mask' = MaskOut(edge_mask, FilterMarkers(e_id))
            /\ ret' = [first |-> SelectBy(ei, edge_mask'),
                       second |-> SelectBy(ei, Not(edge_mask')),
                       kind |-> "remaining_and_masked"]
    /\ UNCHANGED << args, ei, num_nodes, start, walk, si, step, current_node,
                    e_id, mask, feats, out >>

\* ------------------------------------------------------------- mask_edge
\* if p < 0. or p > 1.   (line 93)
EdgeProbInvalid(prob) == prob < 0 \/ prob > 2

\* EdgeResult with the two selections exchanged
EdgeResultSwapped(t, m) ==
    [first |-> SelectBy(t, m), second |-> SelectBy(t, Not(m)),
     kind |-> "remaining_and_masked"]

\* edge_index[:, ~mask], edge_index[:, mask]   (line 99)
EdgeResult(t, m) ==
    [first |-> SelectBy(t, Not(m)), second |-> SelectBy(t, m),
     kind |-> "remaining_and_masked"]

\* a call of mask_edge(edge_index, p)
EdgeCall ==
    /\ fn = "mask_edge"
    /\ edge_index \in EdgeLists
    /\ p \in PVals
    /\ q = 0
    /\ walks_per_node = 0
    /\ walk_length = 0
    /\ num_nodes_arg = NoneVal
    /\ start_arg = "node"
    /\ is_sorted = FALSE
    /\ training = TRUE
    /\ x = << >>
    /\ FreshCall

\* lines 93-95
EdgeValidate ==
    /\ pc = "entry"
    /\ fn = "mask_edge"
    /\ IF EdgeProbInvalid(p) THEN pc' = "raised" /\ err' = "ValueError"
       ELSE pc' = "checked" /\ err' = err
    /\ UNCHANGED << args, locals, ret, feats, out >>

\* lines 96-99
EdgeSample ==
    /\ pc = "checked"
    /\ fn = "mask_edge"
    /\ \E m \in Bernoulli(Len(edge_index), p) :
          /\ mask' = m
          /\ ret' = EdgeResult(edge_index, m)
    /\ pc' = "returned"
    /\ UNCHANGED << err, args, ei, num_nodes, edge_mask, start, walk, si, step,
                    current_node, e_id, feats, out >>

\* ---------------------------------------------------- mask_node_features
\* if q < 0. or q > 1.   (line 17)
NodeProbInvalid(prob) == prob < 0 \/ prob > 2

\* feature matrices: n rows of d values
Matrices ==
    UNION {[1 .. n -> [1 .. d -> FeatVals]] : n \in 0 .. MaxNodes, d \in 1 .. MaxDim}

\* t[m] = 0 : the rows selected by m are set to zero
ZeroRows(t, m) ==
    [i \in DOMAIN t |-> IF m[i] THEN [j \in DOMAIN t[i] |-> 0] ELSE t[i]]

\* masked_x = x, without the clone
SharesStorageNoClone == TRUE

\* masked_x = x.clone() : masked_x has storage of its own   (line 28)
SharesStorage == FALSE

\* a call of mask_node_features(x, q)
NodeCall ==
    /\ fn = "mask_node_features"
    /\ x \in Matrices
    /\ q \in PVals
    /\ p = 0
    /\ edge_index = << >>
    /\ walks_per_node = 0
    /\ walk_length = 0
    /\ num_nodes_arg = NoneVal
    /\ start_arg = "node"
    /\ is_sorted = FALSE
    /\ training = TRUE
    /\ FreshCall

\* lines 17-19
NodeValidate ==
    /\ pc = "entry"
    /\ fn = "mask_node_features"
    /\ IF NodeProbInvalid(q) THEN pc' = "raised" /\ err' = "ValueError"
       ELSE pc' = "checked" /\ err' = err
    /\ UNCHANGED << args, locals, ret, feats, out >>

\* lines 20-31
NodeMask ==
    /\ pc = "checked"
    /\ fn = "mask_node_features"
    /\ \E m \in Bernoulli(Len(x), q) :
          /\ mask' = m
          /\ masked_x' = ZeroRows(x, m)
          /\ x' = IF SharesStorage THEN ZeroRows(x, m) ELSE x
    /\ pc' = "returned"
    /\ UNCHANGED << err, args, ei, num_nodes, edge_mask, start, walk, si, step,
                    current_node, e_id, ret, out >>

\* ------------------------------------------------------ adapter forward()
RECURSIVE Unique(_)
\* drop repeated neighbours of a sorted sequence
Unique(s) ==
    IF Len(s) <= 1 THEN s
    ELSE IF s[1] = s[2] THEN Unique(Tail(s))
         ELSE << s[1] >> \o Unique(Tail(s))

Flip(t) == [i \in DOMAIN t |-> << t[i][2], t[i][1] >>]

\* torch_geometric to_undirected: both directions of every column, coalesced
to_undirected(t) ==
    Unique(sort_edge_index(t \o Flip(t), maybe_num_nodes(t, NoneVal)))

\* ForwardResult that symmetrizes the masked set as well
ForwardResultBothSymmetrized(und, r) ==
    [first |-> IF und THEN to_undirected(r.first) ELSE r.first,
     second |-> IF und /\ r.kind = "remaining_and_masked"
                THEN to_undirected(r.second) ELSE r.second,
     kind |-> r.kind]

\* lines 137-139 and 154-156
ForwardResult(und, r) ==
    [first |-> IF und THEN to_undirected(r.first) ELSE r.first,
     second |-> r.second,
     kind |-> r.kind]

\* MaskPath.forward (lines 131-139) once mask_path has returned
PathForward ==
    /\ pc = "returned"
    /\ fn = "mask_path"
    /\ via = "module"
    /\ out' = ForwardResult(undirected, ret)
    /\ pc' = "forwarded"
    /\ UNCHANGED << err, args, locals, ret, feats >>

\* MaskEdge.forward (lines 152-156) once mask_edge has returned
EdgeForward ==
    /\ pc = "returned"
    /\ fn = "mask_edge"
    /\ via = "module"
    /\ out' = ForwardResult(undirected, ret)
    /\ pc' = "forwarded"
    /\ UNCHANGED << err, args, locals, ret, feats >>

\* MaskNode.forward (lines 109-112) once mask_node_features has returned
NodeForward ==
    /\ pc = "returned"
    /\ fn = "mask_node_features"
    /\ via = "module"
    /\ out' = [first |-> masked_x, second |-> << >>, kind |-> "masked_x"]
    /\ pc' = "forwarded"
    /\ UNCHANGED << err, args, locals, ret, feats >>

\* --------------------------------------------------------- specifications
\* direct calls of the three functions
Init ==
    /\ via = "function"
    /\ undirected = FALSE
    /\ PathCall \/ EdgeCall \/ NodeCall

Next ==
    \/ PathValidate
    \/ PathBypass
    \/ PathSort
    \/ PathSelectStart
    \/ PathWalkStep
    \/ PathWalkEnd
    \/ PathMask
    \/ EdgeValidate
    \/ EdgeSample
    \/ NodeValidate
    \/ NodeMask

Spec == Init /\ [][Next]_vars

\* calls through MaskPath, MaskEdge and MaskNode; MaskPath.forward leaves
\* is_sorted and training at their defaults
InitModule ==
    /\ via = "module"
    /\ undirected \in BOOLEAN
    /\ \/ PathCall /\ training /\ ~ is_sorted
       \/ EdgeCall
       \/ NodeCall

NextModule ==
    \/ PathValidate
    \/ PathBypass
    \/ PathSort
    \/ PathSelectStart
    \/ PathWalkStep
    \/ PathWalkEnd
    \/ PathMask
    \/ PathForward
    \/ EdgeValidate
    \/ EdgeSample
    \/ EdgeForward
    \/ NodeValidate
    \/ NodeMask
    \/ NodeForward

SpecModule == InitModule /\ [][NextModule]_vars

\* direct calls of mask_edge alone
InitEdge ==
    /\ via = "function"
    /\ undirected = FALSE
    /\ EdgeCall

NextEdge ==
    \/ EdgeValidate
    \/ EdgeSample

SpecEdge == InitEdge /\ [][NextEdge]_vars

\* direct calls of mask_node_features alone
InitNode ==
    /\ via = "function"
    /\ undirected = FALSE
    /\ NodeCall

NextNode ==
    \/ NodeValidate
    \/ NodeMask

SpecNode == InitNode /\ [][NextNode]_vars

\* ----------------------------------------------------------------- claims
\* vocabulary of the properties
InUnit(prob) == 0 <= prob /\ prob <= 2

\* the input of mask_path as sort_edge_index orders it
SortedInput == sort_edge_index(edge_index, maybe_num_nodes(edge_index, num_nodes_arg))

RECURSIVE IsSubsequence(_, _)
\* a is b with some columns removed, the others in b's order
IsSubsequence(a, b) ==
    IF Len(a) = 0 THEN TRUE
    ELSE IF Len(b) = 0 THEN FALSE
    ELSE IF a[1] = b[1] THEN IsSubsequence(Tail(a), Tail(b))
         ELSE IsSubsequence(a, Tail(b))

\* r.first and r.second split the columns of t between them, each keeping
\* t's order (the columns of an edge list of EdgeLists are distinct)
Partitions(r, t) ==
    /\ IsSubsequence(r.first, t)
    /\ IsSubsequence(r.second, t)
    /\ Range(r.first) \cap Range(r.second) = {}
    /\ Range(r.first) \cup Range(r.second) = Range(t)
    /\ Len(r.first) + Len(r.second) = Len(t)

Count(s, v) == Cardinality({i \in DOMAIN s : s[i] = v})

\* the nodes that were the current node of a step of some walk
Stepped == Range(FilterMarkers(e_id))

\* C1: with training=True and any p in [0,1], p = 0 included, mask_path
\* returns two edge sets that partition the source-sorted edge index.
C1_PartitionForEveryP ==
    (fn = "mask_path" /\ training /\ InUnit(p) /\ pc = "returned")
        => IF ret.kind = "remaining_and_masked"
           THEN Partitions(ret, SortedInput)
           ELSE Len(edge_index) = 0

\* C2: every edge (u, v) of masked_edges is an out-edge of a node u that was
\* the current node of a step of some walk.
C2_MaskedFromVisited ==
    (fn = "mask_path" /\ pc = "returned" /\ ret.kind = "remaining_and_masked")
        => \A i \in DOMAIN ret.second : ret.second[i][1] \in Stepped

\* C3: with p = 1.0, start='node', walk_length >= 1 and walks_per_node >= 1,
\* all N nodes are starts and every node that has an out-edge gets one of
\* its own out-edges into masked_edges.
C3_EveryStartMasksOwnEdge ==
    (/\ fn = "mask_path" /\ training /\ p = 2 /\ start_arg = "node"
     /\ walk_length >= 1 /\ walks_per_node >= 1 /\ pc = "returned")
        => /\ Range(start) = 0 .. (num_nodes - 1)
           /\ \A u \in Range(Row(ei)) :
                 \E i \in DOMAIN ret.second : ret.second[i][1] = u

\* C9: the number of walks run (of end-of-walk markers appended) is
\* W * round(p * N) in 'node' mode and W times the number of sampled edges
\* (the length of the repeated start tensor) in 'edge' mode.
C9_WalkCount ==
    (fn = "mask_path" /\ pc = "mask")
        => Count(e_id, -1) = IF start_arg = "node"
                             THEN walks_per_node * Round(num_nodes * p)
                             ELSE Len(start)

\* C10: for every valid input the call completes without error, and every
\* identifier collected, the markers discarded, is a position of the mask.
C10_NoErrorOnValidInput ==
    (fn = "mask_path" /\ training /\ InUnit(p) /\ start_arg \in {"node", "edge"})
        => /\ err = "none"
           /\ pc = "mask" => \A i \in Stepped : 0 <= i /\ i < Len(edge_mask)

\* what the evaluation-mode bypass returns: the input itself and an all-true
\* mask
Identity ==
    [first |-> edge_index, second |-> NewOnes(Len(edge_index)),
     kind |-> "edge_index_and_mask"]

\* C4 as stated: with training=False the call returns the input unchanged
\* and an all-true mask for any value of p, the bypass being decided before
\* p is range-validated.
C4_BypassBeforeValidation ==
    (/\ fn = "mask_path" /\ ~ training /\ start_arg \in {"node", "edge"}
     /\ pc \notin {"entry", "checked"})
        => pc = "returned" /\ ret = Identity

\* C4 amended: with training=False, a valid start mode and p in [0,1] the
\* call returns the input unchanged (not re-sorted) and an all-true mask of
\* length E, without sorting or sampling; p is range-validated first, so
\* with p outside [0,1] the call raises the invalid-argument error.
C4_BypassAfterValidation ==
    (fn = "mask_path" /\ ~ training /\ start_arg \in {"node", "edge"})
        => /\ pc \in {"entry", "checked", "returned", "raised"}
           /\ ei = edge_index /\ start = << >> /\ e_id = << >>
           /\ pc = "returned" => InUnit(p) /\ ret = Identity
           /\ pc = "raised" => ~ InUnit(p) /\ err = "ValueError" /\ ret = NoRet
           /\ pc = "checked" => InUnit(p)

C4_Witness ==
    /\ fn = "mask_path" /\ ~ training /\ p = 2 /\ pc = "returned"
    /\ ~ IsSortedByRow(edge_index)
    /\ ret.first = edge_index
    /\ ret.second = << TRUE, TRUE, TRUE >>

\* the probability argument of the running call
Prob == IF fn = "mask_node_features" THEN q ELSE p

\* C5: with p or q outside [0,1] each of the three functions, whatever its
\* other arguments, raises the invalid-argument error as its only step:
\* nothing is sorted, sampled or returned and the inputs stay as they were.
C5_InvalidProbabilityFails ==
    [][~ InUnit(Prob) =>
          /\ pc = "entry" /\ pc' = "raised" /\ err' = "ValueError"
          /\ UNCHANGED << args, locals, ret, feats, out >>]_vars

C5_Witness ==
    /\ fn = "mask_path" /\ p = 3 /\ ~ training /\ start_arg = "other"
    /\ Len(edge_index) = 2 /\ ~ IsSortedByRow(edge_index)
    /\ pc = "raised" /\ err = "ValueError"
    /\ ei = edge_index /\ ret = NoRet

\* C6: for p in [0,1] mask_edge returns two edge indices that split the
\* input's columns between them, each in the input's order; at p = 0
\* remaining_edges is the input and masked_edges is empty, at p = 1
\* remaining_edges is empty and masked_edges holds every input column.
C6_EdgePartition ==
    (fn = "mask_edge" /\ pc = "returned")
        => /\ InUnit(p)
           /\ ret.kind = "remaining_and_masked"
           /\ Partitions(ret, edge_index)
           /\ p = 0 => ret.first = edge_index /\ ret.second = << >>
           /\ p = 2 => ret.first = << >> /\ ret.second = edge_index

C6_Witness ==
    /\ fn = "mask_edge" /\ pc = "returned" /\ p = 1
    /\ Len(edge_index) = 3 /\ ~ IsSortedByRow(edge_index)
    /\ Len(ret.first) = 2 /\ ~ IsSortedByRow(ret.first)
    /\ Len(ret.second) = 1

Closed(t) == \A i \in DOMAIN t : << t[i][2], t[i][1] >> \in Range(t)

\* C7: MaskPath.forward and MaskEdge.forward with undirected=True return a
\* remaining set closed under reversal that contains every edge the masking
\* function kept, and the masking function's second value as it is; with
\* undirected=False they return both values as the masking function did.
C7_ForwardSymmetrizesRemaining ==
    (pc = "forwarded" /\ fn \in {"mask_path", "mask_edge"})
        => /\ out.second = ret.second
           /\ undirected => Closed(out.first) /\ Range(ret.first) \subseteq Range(out.first)
           /\ ~ undirected => out.first = ret.first

C7_Witness ==
    /\ pc = "forwarded" /\ fn = "mask_path" /\ undirected
    /\ ret.kind = "remaining_and_masked"
    /\ Len(ret.second) > 0 /\ ~ Closed(ret.second)
    /\ Len(ret.first) > 0 /\ ~ Closed(ret.first)
    /\ Closed(out.first)

ZeroRow(r) == \A j \in DOMAIN r : r[j] = 0

\* C8 (rows): the matrix returned has the shape of X, each of its rows is
\* the row of X or all zero, none is zeroed at q = 0 and all are at q = 1.
C8_Rows ==
    (fn = "mask_node_features" /\ pc = "returned")
        => /\ DOMAIN masked_x = DOMAIN x
           /\ \A i \in DOMAIN x :
                 /\ DOMAIN masked_x[i] = DOMAIN x[i]
                 /\ masked_x[i] = x[i] \/ ZeroRow(masked_x[i])
                 /\ mask[i] => ZeroRow(masked_x[i])
                 /\ ~ mask[i] => masked_x[i] = x[i]
           /\ q = 0 => masked_x = x
           /\ q = 2 => \A i \in DOMAIN x : ZeroRow(masked_x[i])

\* C8: mask_node_features returns a matrix whose rows are rows of X or all
\* zero (C8_Rows), and no step of the call modifies the input X.
C8_RowsMaskedInputKept == [] C8_Rows /\ [][x' = x]_vars

C8_Witness ==
    /\ fn = "mask_node_features" /\ pc = "returned" /\ q = 1
    /\ Len(x) = 3
    /\ ~ ZeroRow(x[1]) /\ ZeroRow(masked_x[1])
    /\ ~ ZeroRow(x[2]) /\ masked_x[2] = x[2]

====
